---- MODULE Spec2Model ----
(***************************************************************************)
(* The resumable re-indexing subsystem of file-indexer: the admin task     *)
(* store (services/admin_task_service.rs), the keyset-paginated entity     *)
(* sources (db/repositories/file.rs, db/repositories/collections.rs), the  *)
(* re-index scheduler (fairings/re_indexer.rs), the GC sweep               *)
(* (fairings/file_gc.rs) and the liftoff and shutdown of both fairings.    *)
(*                                                                         *)
(* Every await of the source is one step of the model.  The task store is  *)
(* a PostgreSQL table read and written under the default isolation level   *)
(* (READ COMMITTED): a statement sees the rows committed when it starts,   *)
(* an UPDATE waits for the row locks of an open transaction and then       *)
(* re-checks its WHERE clause on the rows it waited for.                   *)
(***************************************************************************)
EXTENDS Integers, Sequences, FiniteSets, TLC

\* ---------------------------------------------------------------- bounds
MaxId == 3          \* entity ids (uuids) are 1..MaxId
MaxKey == 2         \* tiebreak values (uploaded_at, name) are 1..MaxKey
MaxBatch == 2       \* page limits tried by the scan specification
MaxEnqueues == 2    \* enqueue_task calls of one behaviour
MaxFaults == 2      \* store, source and sink calls that fail in one behaviour
MaxGcFiles == 2     \* files in the store when the GC sweep specification starts
MaxClock == 2       \* the last instant of the database clock

Ids == 1..MaxId
Keys == 1..MaxKey
\* the connections that call enqueue_task: two, so that calls can overlap
Clients == {1, 2}

\* ------------------------------------------------------------ vocabulary
Files == "files"
Collections == "collections"
RE_INDEX_FILES_TASK_NAME == "reindex-files"
RE_INDEX_COLLECTIONS_TASK_NAME == "reindex-collections"
Kinds == {Files, Collections}
\* (mutant) both ticks look up the task named for files
task_name_of_files(k) == RE_INDEX_FILES_TASK_NAME
task_name(k) == IF k = Files THEN RE_INDEX_FILES_TASK_NAME ELSE RE_INDEX_COLLECTIONS_TASK_NAME

Pending == "pending"
InProgress == "in_progress"
Canceled == "canceled"
Completed == "completed"
Failed == "failed"
AdminTaskStatus == {Pending, InProgress, Canceled, Completed, Failed}
Terminal == {Canceled, Completed, Failed}

\* Option<T> is a sequence of length 0 (None) or 1 (Some).
None == <<>>
Some(x) == <<x>>

\* ------------------------------------------------------- task metadata
\* A JSON field of the metadata document, as serde sees it.
JNull == [tag |-> "null", v |-> 0]
JMissing == [tag |-> "missing", v |-> 0]
JBad == [tag |-> "bad", v |-> 0]
JVal(n) == [tag |-> "val", v |-> n]

\* serde_json::json!({"last_.._id": .., "last_.._<key>": ..})
Metadata(i, k) == [shape |-> "object", id |-> i, key |-> k]
NullMetadata == Metadata(JNull, JNull)

\* serde_json::from_value::<ReIndexTaskMetadata>: an Option field accepts a
\* missing key and null; a value of another type, or a document that is not
\* an object, is an error.
from_value_ok(m) == m.shape = "object" /\ m.id.tag # "bad" /\ m.key.tag # "bad"

\* match (metadata.last_id, metadata.last_key) { (Some, Some) => Some(cursor), _ => None }
cursor_of(m) ==
    IF m.id.tag = "val" /\ m.key.tag = "val"
    THEN Some([id |-> m.id.v, key |-> m.key.v])
    ELSE None

\* serde_json::to_value(ReIndexTaskMetadata { Some(last.id), Some(last.key) })
to_value(last) == Metadata(JVal(last.id), JVal(last.key))

\* ------------------------------------------------------ entity sources
\* ORDER BY uploaded_at DESC, id ASC
file_before(a, b) == a.key > b.key \/ (a.key = b.key /\ a.id < b.id)
\* ORDER BY name ASC, id ASC
collection_before(a, b) == a.key < b.key \/ (a.key = b.key /\ a.id < b.id)
before(k, a, b) == IF k = Files THEN file_before(a, b) ELSE collection_before(a, b)

\* (mutant) WHERE $1 <= name AND $2 <= id
collection_where_from_cursor(c, cursor) ==
    cursor # None => (cursor[1].key <= c.key /\ cursor[1].id <= c.id)

\* (mutant) WHERE uploaded_at <= $1 AND id >= $2
file_where_from_cursor(f, cursor) ==
    cursor # None => (f.key <= cursor[1].key /\ cursor[1].id <= f.id)

\* FileService::list_files, which the tick calls:
\* WHERE uploaded_at <= $1 AND id > $2                     (no cursor: every row)
\* The statement has no condition on is_ready (FileRepository::list has
\* AND is_ready = TRUE; list_files does not go through it).
file_where(f, cursor) ==
    cursor # None => (f.key <= cursor[1].key /\ cursor[1].id < f.id)
\* WHERE $1 <= name AND $2 < id                             (no cursor: every row)
collection_where(c, cursor) ==
    cursor # None => (cursor[1].key <= c.key /\ cursor[1].id < c.id)
where(k, e, cursor) == IF k = Files THEN file_where(e, cursor) ELSE collection_where(e, cursor)

\* The rows of S in the order of kind k, up to limit of them (ORDER BY .. LIMIT).
RECURSIVE order_limit(_, _, _)
order_limit(k, S, limit) ==
    IF S = {} \/ limit = 0 THEN <<>>
    ELSE LET first == CHOOSE e \in S : \A o \in S \ {e} : before(k, e, o)
         IN <<first>> \o order_limit(k, S \ {first}, limit - 1)

\* FileRepository::list / CollectionRepository::list
list(k, rows, limit, cursor) ==
    order_limit(k, {e \in rows : where(k, e, cursor)}, limit)


\* ------------------------------------------------------- search index
\* (id, sort field) of an entity: FileCursor / CollectionCursor, and the part
\* of a document that the model keeps by value
position(x) == [id |-> x.id, key |-> x.key]

\* the fields of a document besides id and the sort field
FileFields == {"name", "size", "mime_type", "tags"}
CollectionFields == {"tags", "created_at"}

\* index_file / index_collection: struct IndexingFile { id, name, size,
\* mime_type, tags, uploaded_at }, struct IndexingCollection { id, name, tags,
\* created_at }
single_document(k, x) ==
    [id |-> x.id, key |-> x.key, fields |-> IF k = "files" THEN FileFields ELSE CollectionFields]

\* index_files / index_collections: struct IndexingFile as above, struct
\* IndexingCollection { id, name }
batch_document(k, x) ==
    [id |-> x.id, key |-> x.key, fields |-> IF k = "files" THEN FileFields ELSE {}]

\* index(..).add_or_update(documents, primary key id): a document replaces
\* the fields it carries and keeps the other fields of the document it updates
add_or_update(docs, ds) ==
    {d \in docs : \A x \in ds : x.id # d.id}
       \cup {[x EXCEPT !.fields = @ \cup UNION {d.fields : d \in {o \in docs : o.id = x.id}}]
                : x \in ds}
\* index(..).delete_document(id)
delete_document(docs, id) == {d \in docs : d.id # id}

\* ----------------------------------------------------------------- state
VARIABLES
    files,          \* rows of table files: [id, key (uploaded_at), ready (is_ready)]
    collections,    \* rows of table collections: [id, key (name), ready]
    batch,          \* the page limit the scheduler passes to list (1000 in the source)
    tasks,          \* committed rows of admin_tasks, in commit order; a task's id is its index
    pushed,         \* per task: the entities the index sink accepted, [id, key, page number]
    tx,             \* per client: its open enqueue_task transaction
    calls,          \* enqueue_task calls begun so far; it is the database clock too
    pc,             \* where the scheduler loop is
    kind,           \* which on_tick function the loop is in (files, then collections)
    task,           \* Option: the AdminTask returned by get_last_active_task
    cursor,         \* Option: the cursor decoded from task.metadata
    page,           \* the page returned by list
    log,            \* the store, source and sink calls of the current on_tick, with outcome
    files_result,   \* files_result of the current timer firing
    duration_secs,  \* the loop's poll interval
    faults,         \* calls that have failed so far
    chan,           \* per fairing: the messages in its stop channel (capacity 1)
    handles,        \* per fairing: stop_signal and task_handle are Some (the loop was spawned)
    shutdown,       \* per fairing: where its on_shutdown is, and where the loop was at the send
    waited,         \* time the re-index loop has spent in its current wait
    gc,             \* the GC sweep loop and the transaction of its delete_unready_many
    file_tags,      \* rows of table file_tags: the file ids that have tags
    clock,          \* now() of the database
    index,          \* per kind: the documents of the search index, [id, key, fields]
    inserted,       \* the entities created during a scan, with their place at the cursor
    listing,        \* a client that pages through list_tasks
    request         \* the handler of POST /re-index: its position and what it holds

source_vars == <<files, collections, batch>>
store_vars == <<tasks, pushed>>
client_vars == <<tx, calls>>
sched_vars == <<pc, kind, task, cursor, page, log, files_result, duration_secs>>
life_vars == <<chan, handles, shutdown>>
gc_vars == <<gc, file_tags>>
env_vars == <<clock, index, inserted, listing, request>>
vars == <<files, collections, batch, tasks, pushed, tx, calls,
          pc, kind, task, cursor, page, log, files_result, duration_secs, faults,
          chan, handles, shutdown, waited, gc, file_tags, clock, index, inserted, listing, request>>

rows(k) == IF k = Files THEN files ELSE collections

\* A call of the store, the source or the sink returns an error.
inject(fail) ==
    IF fail THEN faults < MaxFaults /\ faults' = faults + 1 ELSE UNCHANGED faults

\* ------------------------------------------------------------ task store
Active(name) ==
    {i \in DOMAIN tasks : tasks[i].name = name /\ tasks[i].status \in {Pending, InProgress}}

\* (mutant) WHERE name = $1 ORDER BY enqueued_at ASC LIMIT 1
get_first_task(name) ==
    {i \in DOMAIN tasks : /\ tasks[i].name = name
                          /\ \A j \in DOMAIN tasks :
                                tasks[j].name = name => tasks[i].enqueued_at <= tasks[j].enqueued_at}

\* WHERE name = $1 AND (status = 'pending' OR status = 'in_progress')
\* ORDER BY enqueued_at ASC LIMIT 1: the rows LIMIT 1 may return (equal
\* enqueued_at leaves the choice to the database).
get_last_active_task(name) ==
    {i \in Active(name) : \A j \in Active(name) : tasks[i].enqueued_at <= tasks[j].enqueued_at}

\* A row updated by an open transaction is locked until that transaction ends.
locked(i) == \E c \in Clients : i \in tx[c].locked
locked_by_other(c, i) == \E d \in Clients \ {c} : i \in tx[d].locked

\* admin_tasks.updated_at: the column is set to now() by every UPDATE of the
\* row (the table's definition is not part of the sources at hand).
set_updated_at(t) == [t EXCEPT !.updated_at = clock]

\* UPDATE admin_tasks SET status = $1 WHERE id = $2
update_task_status(ts, id, status) ==
    [ts EXCEPT ![id] = set_updated_at([@ EXCEPT !.status = status])]
\* UPDATE admin_tasks SET metadata = $1 WHERE id = $2
update_task_metadata(ts, id, metadata) ==
    [ts EXCEPT ![id] = set_updated_at([@ EXCEPT !.metadata = metadata])]

\* the rows list_tasks selects from (AdminTaskPreview: no metadata)
AdminTaskPreview(ts) == {[id |-> i, updated_at |-> ts[i].updated_at] : i \in DOMAIN ts}

\* (mutant) ORDER BY updated_at ASC, id ASC
task_before_oldest_first(a, b) ==
    a.updated_at < b.updated_at \/ (a.updated_at = b.updated_at /\ a.id < b.id)
\* ORDER BY updated_at DESC, id ASC
task_before(a, b) ==
    a.updated_at > b.updated_at \/ (a.updated_at = b.updated_at /\ a.id < b.id)

\* WHERE id > $1 AND updated_at <= $2                       (no cursor: every row)
task_where(t, c) == c # None => (t.id > c[1].id /\ t.updated_at <= c[1].updated_at)

RECURSIVE task_order_limit(_, _)
task_order_limit(S, limit) ==
    IF S = {} \/ limit = 0 THEN <<>>
    ELSE LET first == CHOOSE t \in S : \A o \in S \ {t} : task_before(t, o)
         IN <<first>> \o task_order_limit(S \ {first}, limit - 1)

\* AdminTaskService::list_tasks
list_tasks(ts, limit, c) ==
    task_order_limit({t \in AdminTaskPreview(ts) : task_where(t, c)}, limit)

\* ------------------------------------------------------------- scheduler
Results == {"NoTask", "TaskNotCompleted", "TaskCompleted", "Err"}
SlowSecs == 10
FastSecs == 1
\* the match on files_result / collections_result of re_index_task
secs(result) == IF result = "TaskNotCompleted" THEN FastSecs ELSE SlowSecs
\* (mutant) the larger of the two intervals
min_taking_larger(a, b) == IF a <= b THEN b ELSE a
min(a, b) == IF a <= b THEN a ELSE b

entry(op, ok) == [op |-> op, ok |-> ok]

\* (mutant) the page read is not pushed before its cursor is written
on_read_skipping_sink(ok, pg) ==
    IF ~ok THEN "failed" ELSE IF pg = <<>> THEN "completed" ELSE "metadata"

\* (mutants) the error of the status write is dropped; a failed read is tried
\* again; the cursor is written although the sink refused the page
on_in_progress_ignoring_error(ok, m) == IF from_value_ok(m) THEN "read" ELSE "failed"
on_read_retrying(ok, pg) == IF ~ok THEN "read" ELSE IF pg = <<>> THEN "completed" ELSE "sink"
on_sink_ignoring_error(ok) == "metadata"

\* Where an on_tick function goes after each await: the next await, or the
\* result it returns.
on_lookup(ok, found) == IF ~ok THEN "Err" ELSE IF found THEN "in_progress" ELSE "NoTask"
on_in_progress(ok, m) == IF ~ok THEN "Err" ELSE IF from_value_ok(m) THEN "read" ELSE "failed"
on_read(ok, pg) == IF ~ok THEN "failed" ELSE IF pg = <<>> THEN "completed" ELSE "sink"
on_sink(ok) == IF ok THEN "metadata" ELSE "failed"
on_metadata(ok) == IF ok THEN "TaskNotCompleted" ELSE "failed"
on_failed(ok) == "Err"
on_completed(ok) == IF ok THEN "TaskCompleted" ELSE "Err"

\* (mutant) an Err of a tick is propagated out of the loop
on_results_propagating(fr, cr) == IF "Err" \in {fr, cr} THEN "exit" ELSE "wait"

\* After the two matches on files_result and collections_result the loop
\* goes round again whatever the results are: an Err is only logged.
on_results(fr, cr) == "wait"

\* Continue the on_tick function at the next await, or return result `to`:
\* the files result is kept and the collections tick starts; the collections
\* result ends the firing with duration_secs = min(file, collections).
goto(to) ==
    IF to \notin Results
    THEN pc' = to /\ UNCHANGED <<kind, files_result, duration_secs>>
    ELSE IF kind = Files
    THEN /\ pc' = "lookup"
         /\ kind' = Collections
         /\ files_result' = to
         /\ UNCHANGED duration_secs
    ELSE /\ pc' = on_results(files_result, to)
         /\ kind' = Files
         /\ duration_secs' = min(secs(files_result), secs(to))
         /\ UNCHANGED files_result

\* tokio::time::interval(period): the time after its creation at which its
\* n-th tick completes; the first tick completes at once.
tick_due(n, period) == (n - 1) * period

\* let mut timer = interval(duration_secs) at the top of every iteration:
\* the tick the select! waits for is always the first tick of a new interval.
timer_ready == waited >= tick_due(1, duration_secs)

\* _ = timer.tick() => the files tick starts
timer_tick ==
    /\ pc = "wait"
    /\ timer_ready
    /\ pc' = "lookup"
    /\ kind' = Files
    /\ waited' = 0
    /\ UNCHANGED <<task, cursor, page, log, files_result, duration_secs>>
    /\ UNCHANGED <<env_vars, source_vars, store_vars, client_vars, faults, life_vars, gc_vars>>

\* time goes by while the loop is suspended in select!
time_passes ==
    /\ pc = "wait"
    /\ waited < duration_secs
    /\ waited' = waited + 1
    /\ UNCHANGED <<env_vars, source_vars, store_vars, client_vars, sched_vars, faults, life_vars, gc_vars>>

\* get_last_active_task(name).await?
tick_lookup(fail) ==
    /\ inject(fail)
    /\ pc = "lookup"
    /\ log' = <<entry("lookup", ~fail)>>
    /\ cursor' = None
    /\ page' = <<>>
    /\ IF fail
       THEN task' = None /\ goto(on_lookup(FALSE, FALSE))
       ELSE LET found == get_last_active_task(task_name(kind)) IN
            IF found = {}
            THEN task' = None /\ goto(on_lookup(TRUE, FALSE))
            ELSE \E i \in found :
                    /\ task' = Some([id |-> i, status |-> tasks[i].status,
                                     metadata |-> tasks[i].metadata])
                    /\ goto(on_lookup(TRUE, TRUE))
    /\ UNCHANGED <<env_vars, source_vars, store_vars, client_vars>>
    /\ UNCHANGED <<life_vars, gc_vars, waited>>

\* update_task_status(task_id, InProgress).await?, then the metadata decode
tick_in_progress(fail) ==
    /\ inject(fail)
    /\ pc = "in_progress"
    /\ log' = Append(log, entry("in_progress", ~fail))
    /\ IF fail
       THEN UNCHANGED <<tasks, cursor>>
       ELSE /\ ~locked(task[1].id)
            /\ tasks' = update_task_status(tasks, task[1].id, InProgress)
            /\ cursor' = cursor_of(task[1].metadata)
    /\ goto(on_in_progress(~fail, task[1].metadata))
    /\ UNCHANGED <<env_vars, source_vars, pushed, client_vars, task, page>>
    /\ UNCHANGED <<life_vars, gc_vars, waited>>

\* list_files(1000, cursor).await? / list_collections(1000, cursor).await?
tick_read(fail) ==
    /\ inject(fail)
    /\ pc = "read"
    /\ log' = Append(log, entry("read", ~fail))
    /\ page' = IF fail THEN <<>> ELSE list(kind, rows(kind), batch, cursor)
    /\ goto(on_read(~fail, page'))
    /\ UNCHANGED <<env_vars, source_vars, store_vars, client_vars, task, cursor>>
    /\ UNCHANGED <<life_vars, gc_vars, waited>>

\* the number of pages the sink has accepted in p
pages(p) == IF p = <<>> THEN 0 ELSE p[Len(p)].page

\* index_files(&files).await? / index_collections(&collections).await?
tick_sink(fail) ==
    /\ inject(fail)
    /\ pc = "sink"
    /\ log' = Append(log, entry("sink", ~fail))
    /\ pushed' = IF fail THEN pushed
                 ELSE [pushed EXCEPT ![task[1].id] =
                          @ \o [n \in DOMAIN page |->
                                  [id |-> page[n].id, key |-> page[n].key, page |-> pages(@) + 1]]]
    /\ index' = IF fail THEN index
                ELSE [index EXCEPT ![kind] =
                         add_or_update(@, {batch_document(kind, page[n]) : n \in DOMAIN page})]
    /\ goto(on_sink(~fail))
    /\ UNCHANGED <<clock, listing, inserted, request>>
    /\ UNCHANGED <<source_vars, tasks, client_vars, task, cursor, page>>
    /\ UNCHANGED <<life_vars, gc_vars, waited>>

\* update_task_metadata(admin_task.id, metadata).await?
tick_metadata(fail) ==
    /\ inject(fail)
    /\ pc = "metadata"
    /\ log' = Append(log, entry("metadata", ~fail))
    /\ IF fail
       THEN UNCHANGED tasks
       ELSE /\ ~locked(task[1].id)
            /\ tasks' = update_task_metadata(tasks, task[1].id, to_value(page[Len(page)]))
    /\ goto(on_metadata(~fail))
    /\ UNCHANGED <<env_vars, source_vars, pushed, client_vars, task, cursor, page>>
    /\ UNCHANGED <<life_vars, gc_vars, waited>>

\* Err(err) => update_task_status(task_id, Failed).await?; return Err(err)
tick_failed(fail) ==
    /\ inject(fail)
    /\ pc = "failed"
    /\ log' = Append(log, entry("failed", ~fail))
    /\ IF fail
       THEN UNCHANGED tasks
       ELSE /\ ~locked(task[1].id)
            /\ tasks' = update_task_status(tasks, task[1].id, Failed)
    /\ goto(on_failed(~fail))
    /\ UNCHANGED <<env_vars, source_vars, pushed, client_vars, task, cursor, page>>
    /\ UNCHANGED <<life_vars, gc_vars, waited>>

\* if result == TaskCompleted { update_task_status(task_id, Completed).await? }
tick_completed(fail) ==
    /\ inject(fail)
    /\ pc = "completed"
    /\ log' = Append(log, entry("completed", ~fail))
    /\ IF fail
       THEN UNCHANGED tasks
       ELSE /\ ~locked(task[1].id)
            /\ tasks' = update_task_status(tasks, task[1].id, Completed)
    /\ goto(on_completed(~fail))
    /\ UNCHANGED <<env_vars, source_vars, pushed, client_vars, task, cursor, page>>
    /\ UNCHANGED <<life_vars, gc_vars, waited>>


\* -------------------------------------------------------------- fairings
ReIndexer == "re-indexer"
FileGc == "file_gc"
Fairings == {ReIndexer, FileGc}

\* Fairing::info().kind: Rocket calls on_liftoff only for a fairing whose
\* kind holds Liftoff, and on_shutdown only for one whose kind holds Shutdown.
info_kind(f) == IF f = ReIndexer THEN {"Liftoff", "Shutdown"} ELSE {"Ignite", "Shutdown"}

\* where the loop spawned by fairing f is
loop_pc(f) == IF f = ReIndexer THEN pc ELSE gc.pc

\* (mutants) the stop branch taken at any await of the loop body; a send that
\* does not reach the channel
can_stop_anywhere(p) == p \notin {"unspawned", "exit"}
send_dropped(n) == n

\* select! { _ = stop_signal.recv() => return, .. } is the only place the
\* loop looks at the channel: the top of an iteration.
can_stop(p) == p = "wait"
\* tx.send(()).await on the channel of capacity 1
send(n) == n + 1
\* task_handle.await returns when the spawned loop has returned
join_ready(p) == p = "exit"

\* on_liftoff: create_re_index_task / create_file_gc_task spawn the loop and
\* keep the sender and the join handle
on_liftoff(f) ==
    /\ "Liftoff" \in info_kind(f)
    /\ ~handles[f]
    /\ loop_pc(f) = "unspawned"
    /\ handles' = [handles EXCEPT ![f] = TRUE]
    /\ IF f = ReIndexer
       THEN pc' = "wait" /\ UNCHANGED gc
       ELSE gc' = [gc EXCEPT !.pc = "wait"] /\ UNCHANGED pc
    /\ UNCHANGED <<env_vars, source_vars, store_vars, client_vars, faults, chan, shutdown, waited, file_tags>>
    /\ UNCHANGED <<kind, task, cursor, page, log, files_result, duration_secs>>

\* on_shutdown, first half: the stop signal is sent when a sender was kept.
\* Rocket shuts down an orbiting instance, so liftoff is over.
on_shutdown_send(f) ==
    /\ "Shutdown" \in info_kind(f)
    /\ \A g \in Fairings : "Liftoff" \in info_kind(g) => handles[g]
    /\ shutdown[f].pc = "idle"
    /\ chan' = IF handles[f] THEN [chan EXCEPT ![f] = send(@)] ELSE chan
    /\ shutdown' = [shutdown EXCEPT ![f] = [pc |-> "join", sent_at |-> loop_pc(f)]]
    /\ UNCHANGED <<env_vars, source_vars, store_vars, client_vars, sched_vars, faults, handles, waited, gc_vars>>

\* on_shutdown, second half: task_handle.await when a handle was kept
on_shutdown_join(f) ==
    /\ shutdown[f].pc = "join"
    /\ handles[f] => join_ready(loop_pc(f))
    /\ shutdown' = [shutdown EXCEPT ![f].pc = "returned"]
    /\ UNCHANGED <<env_vars, source_vars, store_vars, client_vars, sched_vars, faults, chan, handles, waited, gc_vars>>

\* _ = stop_signal.recv() => return   (re_index_task)
loop_stop ==
    /\ can_stop(pc)
    /\ chan[ReIndexer] > 0
    /\ pc' = "exit"
    /\ chan' = [chan EXCEPT ![ReIndexer] = @ - 1]
    /\ UNCHANGED <<kind, task, cursor, page, log, files_result, duration_secs>>
    /\ UNCHANGED <<env_vars, source_vars, store_vars, client_vars, faults, handles, shutdown, waited, gc_vars>>


\* ---------------------------------------------------------- enqueue_task
IdleTx ==
    [pc |-> "idle", name |-> "", metadata |-> NullMetadata, status |-> None,
     snapshot |-> {}, locked |-> {}, enqueued_at |-> 0, result |-> "none"]

\* the column default of admin_tasks.status (INSERT .. without a status)
default_status == Pending

\* WHERE name = $1 AND status != 'canceled'
cancel_where(t, name) == t.name = name /\ t.status # Canceled

\* the rows `ids` with SET status = 'canceled' applied
cancel(ts, ids) ==
    [i \in DOMAIN ts |-> IF i \in ids THEN set_updated_at([ts[i] EXCEPT !.status = Canceled])
                          ELSE ts[i]]

\* (mutant) the UPDATE executed on the pool: it is committed on its own
visible_before_commit_on_pool(ts, ids) == cancel(ts, ids)

\* What the other connections see of the UPDATE before the commit: it is
\* executed on the transaction (&mut *tx), so nothing.
visible_before_commit(ts, ids) == ts

\* the transaction is dropped without commit: rollback
rollback(c, result) ==
    tx' = [tx EXCEPT ![c].pc = "idle", ![c].locked = {}, ![c].result = result]

\* let mut tx = self.db_pool.begin().await?
enqueue_begin(c, name, metadata, status, mark_previous_tasks_as_canceled) ==
    /\ tx[c].pc = "idle"
    /\ calls < MaxEnqueues
    /\ calls' = calls + 1
    /\ tx' = [tx EXCEPT ![c] =
                [pc |-> IF mark_previous_tasks_as_canceled THEN "begun" ELSE "updated",
                 name |-> name, metadata |-> metadata, status |-> status,
                 snapshot |-> {}, locked |-> {}, enqueued_at |-> calls + 1, result |-> "none"]]
    /\ UNCHANGED <<env_vars, source_vars, tasks, pushed, sched_vars, faults>>
    /\ UNCHANGED <<life_vars, gc_vars, waited>>

\* UPDATE admin_tasks SET status = 'canceled' WHERE name = $1 AND status != 'canceled'
\* The statement takes its snapshot; when a row of it is locked by another
\* transaction the statement waits.
enqueue_update(c, fail) ==
    /\ inject(fail)
    /\ tx[c].pc = "begun"
    /\ IF fail
       THEN rollback(c, "err_update") /\ UNCHANGED tasks
       ELSE LET snap == {i \in DOMAIN tasks : cancel_where(tasks[i], tx[c].name)} IN
            IF \E i \in snap : locked_by_other(c, i)
            THEN /\ tx' = [tx EXCEPT ![c].pc = "blocked", ![c].snapshot = snap]
                 /\ UNCHANGED tasks
            ELSE /\ tx' = [tx EXCEPT ![c].pc = "updated", ![c].snapshot = snap,
                                     ![c].locked = snap]
                 /\ tasks' = visible_before_commit(tasks, snap)
    /\ UNCHANGED <<env_vars, source_vars, pushed, calls, sched_vars>>
    /\ UNCHANGED <<life_vars, gc_vars, waited>>

\* The waiting UPDATE goes on once the locks are released: it re-checks the
\* WHERE clause on the rows of its snapshot and updates those that still match.
enqueue_update_resume(c) ==
    /\ tx[c].pc = "blocked"
    /\ \A i \in tx[c].snapshot : ~locked_by_other(c, i)
    /\ LET still == {i \in tx[c].snapshot : cancel_where(tasks[i], tx[c].name)} IN
        /\ tx' = [tx EXCEPT ![c].pc = "updated", ![c].locked = still]
        /\ tasks' = visible_before_commit(tasks, still)
    /\ UNCHANGED <<env_vars, source_vars, pushed, calls, sched_vars, faults>>
    /\ UNCHANGED <<life_vars, gc_vars, waited>>

\* INSERT INTO admin_tasks (initiator, name, metadata[, status]) .. RETURNING ..
enqueue_insert(c, fail) ==
    /\ inject(fail)
    /\ tx[c].pc = "updated"
    /\ IF fail
       THEN rollback(c, "err_insert")
       ELSE tx' = [tx EXCEPT ![c].pc = "inserted"]
    /\ UNCHANGED <<env_vars, source_vars, store_vars, calls, sched_vars>>
    /\ UNCHANGED <<life_vars, gc_vars, waited>>

\* tx.commit().await?
enqueue_commit(c, fail) ==
    /\ inject(fail)
    /\ tx[c].pc = "inserted"
    /\ IF fail
       THEN rollback(c, "err_commit") /\ UNCHANGED <<tasks, pushed>>
       ELSE /\ tasks' = Append(cancel(tasks, tx[c].locked),
                               [name |-> tx[c].name,
                                status |-> IF tx[c].status = None THEN default_status
                                           ELSE tx[c].status[1],
                                metadata |-> tx[c].metadata,
                                enqueued_at |-> tx[c].enqueued_at,
                                updated_at |-> clock])
            /\ pushed' = Append(pushed, <<>>)
            /\ tx' = [tx EXCEPT ![c].pc = "idle", ![c].locked = {}, ![c].result = "ok"]
    /\ UNCHANGED <<env_vars, source_vars, calls, sched_vars>>
    /\ UNCHANGED <<life_vars, gc_vars, waited>>

\* ------------------------------------------------------------ GC sweep
FILE_GC_TASK_NAME == "file-gc"
\* the pool connection the sweep uses for its enqueue_task
GcClient == 2
\* json!({ "success": true }) / json!({ "success": false, "error": err.to_string() })
GcMetadata(success, error) ==
    IF success THEN [shape |-> "gc", success |-> TRUE]
    ELSE [shape |-> "gc", success |-> FALSE, error |-> error]
IdleGc == [pc |-> "unspawned", now |-> 0, before |-> 0, ids |-> {}, tags_deleted |-> {},
           files_deleted |-> {}, success |-> TRUE, error |-> ""]

\* the grace window of the sweep, in the unit of uploaded_at (hours)
GraceHours == 2
\* (mutant) a sweep without grace window
before_uploaded_at_now(now) == now
\* let before_uploaded_at = Utc::now() - Duration::from_secs(60 * 60 * 2)
before_uploaded_at(now) == now - GraceHours

\* WHERE uploaded_at < $1 AND is_ready = FALSE
unready_where(f, uploaded_before) == f.key < uploaded_before /\ ~f.ready

\* the sweep's transaction ends without commit: delete_unready_files is Err
gc_rollback ==
    gc' = [gc EXCEPT !.pc = "enqueue", !.tags_deleted = {}, !.files_deleted = {},
                     !.success = FALSE, !.error = gc.pc]

\* _ = timer.tick() => file_gc_task_on_tick starts at some time `now`, from
\* the upload time of the oldest file to after the grace window of the newest
gc_timer_tick ==
    /\ gc.pc = "wait"
    /\ \E now \in 1..(MaxKey + GraceHours + 1) :
          gc' = [gc EXCEPT !.pc = "begin", !.now = now, !.before = before_uploaded_at(now),
                           !.ids = {}, !.tags_deleted = {}, !.files_deleted = {},
                           !.success = TRUE, !.error = ""]
    /\ UNCHANGED <<env_vars, source_vars, store_vars, client_vars, sched_vars, faults, life_vars,
                   waited, file_tags>>

\* let mut tx = self.db_pool.begin().await?
gc_begin(fail) ==
    /\ inject(fail)
    /\ gc.pc = "begin"
    /\ IF fail THEN gc_rollback ELSE gc' = [gc EXCEPT !.pc = "select"]
    /\ UNCHANGED <<env_vars, source_vars, store_vars, client_vars, sched_vars, life_vars, waited, file_tags>>

\* SELECT id FROM files WHERE uploaded_at < $1 AND is_ready = FALSE
gc_select(fail) ==
    /\ inject(fail)
    /\ gc.pc = "select"
    /\ IF fail
       THEN gc_rollback
       ELSE gc' = [gc EXCEPT !.pc = "delete_tags",
                             !.ids = {f.id : f \in {x \in files : unready_where(x, gc.before)}}]
    /\ UNCHANGED <<env_vars, source_vars, store_vars, client_vars, sched_vars, life_vars, waited, file_tags>>

\* (mutant) the DELETE executed on the pool: it is committed on its own
tags_before_commit_on_pool(tags, deleted) == tags \ deleted
\* What is committed of the sweep's DELETE FROM file_tags before the commit
\* of the sweep: it is executed on the transaction (&mut *tx), so nothing.
tags_before_commit(tags, deleted) == tags

\* DELETE FROM file_tags WHERE file_id = ANY($1)
gc_delete_tags(fail) ==
    /\ inject(fail)
    /\ gc.pc = "delete_tags"
    /\ IF fail
       THEN gc_rollback /\ UNCHANGED file_tags
       ELSE /\ gc' = [gc EXCEPT !.pc = "delete_files", !.tags_deleted = gc.ids \cap file_tags]
            /\ file_tags' = tags_before_commit(file_tags, gc.ids \cap file_tags)
    /\ UNCHANGED <<env_vars, source_vars, store_vars, client_vars, sched_vars, life_vars, waited>>

\* DELETE FROM files WHERE id = ANY($1): the rows that have these ids when the
\* statement runs, whatever their is_ready is by now; they stay locked until
\* the transaction ends.
gc_delete_files(fail) ==
    /\ inject(fail)
    /\ gc.pc = "delete_files"
    /\ IF fail
       THEN gc_rollback
       ELSE gc' = [gc EXCEPT !.pc = "commit",
                             !.files_deleted = {f.id : f \in {x \in files : x.id \in gc.ids}}]
    /\ UNCHANGED <<env_vars, source_vars, store_vars, client_vars, sched_vars, life_vars, waited, file_tags>>

\* tx.commit().await?
gc_commit(fail) ==
    /\ inject(fail)
    /\ gc.pc = "commit"
    /\ IF fail
       THEN gc_rollback /\ UNCHANGED <<files, file_tags>>
       ELSE /\ files' = {f \in files : f.id \notin gc.files_deleted}
            /\ file_tags' = file_tags \ gc.tags_deleted
            /\ gc' = [gc EXCEPT !.pc = "enqueue", !.tags_deleted = {}, !.files_deleted = {}]
    /\ UNCHANGED <<env_vars, collections, batch, store_vars, client_vars, sched_vars, life_vars, waited>>

\* (mutant) the sweep's task enqueued without a status
gc_task_status_default == None
\* (mutant) the sweep's task enqueued as Failed
gc_task_status_failed == Some(Failed)
\* the status argument of the sweep's enqueue_task
gc_task_status == Some(Completed)

\* enqueue_task(System, FILE_GC_TASK_NAME, metadata, Some(Completed), false)
gc_enqueue ==
    /\ gc.pc = "enqueue"
    /\ tx[GcClient] = IdleTx
    /\ enqueue_begin(GcClient, FILE_GC_TASK_NAME, GcMetadata(gc.success, gc.error), gc_task_status, FALSE)

\* the enqueue_task call has returned (an Err is logged): the tick is over
gc_enqueue_returns ==
    /\ gc.pc = "enqueue"
    /\ tx[GcClient].pc = "idle"
    /\ tx[GcClient].result # "none"
    /\ tx' = [tx EXCEPT ![GcClient] = IdleTx]
    /\ gc' = [gc EXCEPT !.pc = "wait"]
    /\ UNCHANGED <<env_vars, source_vars, store_vars, calls, sched_vars, faults, life_vars, waited, file_tags>>

\* _ = stop_signal.recv() => return   (file_gc_task)
gc_stop ==
    /\ can_stop(gc.pc)
    /\ chan[FileGc] > 0
    /\ gc' = [gc EXCEPT !.pc = "exit"]
    /\ chan' = [chan EXCEPT ![FileGc] = @ - 1]
    /\ UNCHANGED <<env_vars, source_vars, store_vars, client_vars, sched_vars, faults, handles, shutdown,
                   waited, file_tags>>

\* FileRepository::update_one_as_ready: UPDATE files SET is_ready = TRUE WHERE
\* id = $1 on the pool (committed at once); it waits while the row is locked
\* by the sweep's DELETE.
update_one_as_ready(file_id) ==
    /\ file_id \notin gc.files_deleted
    /\ \E f \in files : f.id = file_id /\ ~f.ready
    /\ files' = {IF f.id = file_id THEN [f EXCEPT !.ready = TRUE] ELSE f : f \in files}
    /\ UNCHANGED <<env_vars, collections, batch, store_vars, client_vars, sched_vars, faults, life_vars,
                   waited, gc_vars>>

\* ------------------------------------------------------- admin requests
\* time goes by at the database
clock_advances ==
    /\ clock < MaxClock
    /\ clock' = clock + 1
    /\ UNCHANGED <<index, inserted, listing, request>>
    /\ UNCHANGED <<source_vars, store_vars, client_vars, sched_vars, faults, life_vars,
                   gc_vars, waited>>

\* GET /admin-tasks?limit=..&last_admin_task_id=..&last_admin_task_updated_at=..
\* by a client that passes the last element of each page as the next cursor
\* and stops at an empty page
admin_tasks_list ==
    /\ listing.pc = "paging"
    /\ LET got == list_tasks(tasks, listing.limit, listing.cursor) IN
        listing' = IF got = <<>>
                   THEN [listing EXCEPT !.pc = "done"]
                   ELSE [listing EXCEPT !.cursor = Some(got[Len(got)]),
                                        !.seen = @ \o got]
    /\ UNCHANGED <<clock, index, inserted, request>>
    /\ UNCHANGED <<source_vars, store_vars, client_vars, sched_vars, faults, life_vars,
                   gc_vars, waited>>

\* POST /re-index
\* the pool connection the handler uses for its enqueue_task calls
ApiClient == 1
InternalServerError == "InternalServerError"
IdleRequest == [pc |-> "idle", file_task |-> None, collection_task |-> None, response |-> "none"]

\* (mutant) a failure of empty_index is logged and the handler goes on
on_empty_ignoring_error(ok, next) == next

\* if let Err(err) = index_service.empty_index().await { return Err(..) },
\* with the `?` after each delete_all_documents of empty_index
on_empty(ok, next) == IF ok THEN next ELSE "idle"

\* the request arrives
admin_tasks_re_index ==
    /\ request.pc = "idle"
    /\ request' = [IdleRequest EXCEPT !.pc = "empty_files"]
    /\ UNCHANGED <<clock, index, inserted, listing>>
    /\ UNCHANGED <<source_vars, store_vars, client_vars, sched_vars, faults, life_vars,
                   gc_vars, waited>>

\* empty_index: index(FILES_INDEX_UID).delete_all_documents().await?, then
\* index(COLLECTIONS_INDEX_UID).delete_all_documents().await?
empty_index(k, fail) ==
    /\ inject(fail)
    /\ request.pc = IF k = Files THEN "empty_files" ELSE "empty_collections"
    /\ index' = IF fail THEN index ELSE [index EXCEPT ![k] = {}]
    /\ LET to == on_empty(~fail, IF k = Files THEN "empty_collections" ELSE "enqueue_files") IN
        request' = [request EXCEPT !.pc = to,
                                   !.response = IF to = "idle" THEN InternalServerError ELSE @]
    /\ UNCHANGED <<clock, inserted, listing>>
    /\ UNCHANGED <<source_vars, store_vars, client_vars, sched_vars, life_vars, gc_vars, waited>>

\* enqueue_task(User, RE_INDEX_FILES_TASK_NAME / RE_INDEX_COLLECTIONS_TASK_NAME,
\*              the null cursor, None, true)
re_index_enqueue(k) ==
    /\ request.pc = IF k = Files THEN "enqueue_files" ELSE "enqueue_collections"
    /\ tx[ApiClient] = IdleTx
    /\ enqueue_begin(ApiClient, task_name(k), NullMetadata, None, TRUE)

\* .await of the enqueue_task call: the handler keeps the result; after the
\* second call it matches on both results and responds
re_index_enqueue_returns(k) ==
    /\ request.pc = IF k = Files THEN "enqueue_files" ELSE "enqueue_collections"
    /\ tx[ApiClient].pc = "idle"
    /\ tx[ApiClient].result # "none"
    /\ tx' = [tx EXCEPT ![ApiClient] = IdleTx]
    /\ LET got == IF tx[ApiClient].result = "ok" THEN Some(Len(tasks)) ELSE None IN
        request' = IF k = Files
                   THEN [request EXCEPT !.pc = "enqueue_collections", !.file_task = got]
                   ELSE [request EXCEPT !.pc = "idle", !.collection_task = got,
                                        !.response = IF request.file_task # None /\ got # None
                                                     THEN "Ok" ELSE InternalServerError]
    /\ UNCHANGED <<clock, index, inserted, listing>>
    /\ UNCHANGED <<source_vars, store_vars, calls, sched_vars, faults, life_vars, gc_vars, waited>>

\* ------------------------------------------------------------- restart
\* The process dies inside a tick and is started again: the store and the
\* index keep what was committed, open transactions are rolled back, and
\* re_index_task starts anew with its initial locals.
crash_restart ==
    /\ pc \in {"lookup", "in_progress", "read", "sink", "metadata", "failed", "completed"}
    /\ faults < MaxFaults
    /\ faults' = faults + 1
    /\ pc' = "wait"
    /\ kind' = Files
    /\ task' = None
    /\ cursor' = None
    /\ page' = <<>>
    /\ log' = <<>>
    /\ files_result' = "NoTask"
    /\ duration_secs' = SlowSecs
    /\ waited' = 0
    /\ tx' = [c \in Clients |-> IdleTx]
    /\ UNCHANGED <<env_vars, source_vars, store_vars, calls, life_vars, gc_vars>>

\* -------------------------------------------------- collection requests
CREATE_COLLECTION_TASK_NAME == "create-collection"
DELETE_COLLECTION_TASK_NAME == "delete-collection"
RequestMetadata(id) == [shape |-> "request", id |-> id]

\* the cursor a scan of kind k has been given last and will read from: the
\* last entity of the page its tick holds, or else the cursor in the metadata
\* of its active task; none once the scan has read its empty page
issued(k) ==
    IF kind = k /\ pc \in {"sink", "metadata"} /\ page # <<>>
    THEN Some(position(page[Len(page)]))
    ELSE IF Active(task_name(k)) = {} \/ (kind = k /\ pc = "completed") THEN None
    ELSE cursor_of(tasks[CHOOSE i \in get_last_active_task(task_name(k)) : TRUE].metadata)

\* where a new entity x of kind k lies in the order of its source, seen from
\* the cursor issued to the scan of that kind
place(k, x) ==
    IF issued(k) = None THEN "none"
    ELSE IF before(k, issued(k)[1], x) THEN "after" ELSE "before"

\* enqueue_task(User, name, metadata, Some(status), false): one INSERT, committed
record_request(name, id) ==
    /\ calls < MaxEnqueues
    /\ calls' = calls + 1
    /\ tasks' = Append(tasks, [name |-> name, status |-> Completed,
                               metadata |-> RequestMetadata(id),
                               enqueued_at |-> calls + 1, updated_at |-> clock])
    /\ pushed' = Append(pushed, <<>>)

\* INSERT INTO collections (name) VALUES ($1) RETURNING id, created_at
collection(id, name) == [id |-> id, key |-> name, ready |-> TRUE]

\* POST /collections: create_collection, index_collection, enqueue_task
collections_create(id, name) ==
    /\ \A c \in collections : c.id # id
    /\ collections' = collections \cup {collection(id, name)}
    /\ index' = [index EXCEPT ![Collections] =
                    add_or_update(@, {single_document(Collections, collection(id, name))})]
    /\ inserted' = inserted \cup
          {[kind |-> Collections, id |-> id, place |-> place(Collections, collection(id, name)),
            scan |-> IF Active(task_name(Collections)) = {} THEN 0
                     ELSE CHOOSE i \in get_last_active_task(task_name(Collections)) : TRUE]}
    /\ record_request(CREATE_COLLECTION_TASK_NAME, id)
    /\ UNCHANGED <<clock, listing, request>>
    /\ UNCHANGED <<files, batch, tx, sched_vars, faults, life_vars, gc_vars, waited>>

\* DELETE /collections/<id>: delete_collection, index delete_collection, enqueue_task
collections_delete(id) ==
    /\ collections' = {c \in collections : c.id # id}
    /\ index' = [index EXCEPT ![Collections] = delete_document(@, id)]
    /\ record_request(DELETE_COLLECTION_TASK_NAME, id)
    /\ UNCHANGED <<clock, inserted, listing, request>>
    /\ UNCHANGED <<files, batch, tx, sched_vars, faults, life_vars, gc_vars, waited>>

\* --------------------------------------------------------- specifications
e(i, k, r) == [id |-> i, key |-> k, ready |-> r]

\* the metadata documents callers of enqueue_task pass (any serde_json::Value
\* is accepted): the null cursor of POST /re-index and a document serde rejects
MetadataInputs == {NullMetadata, Metadata(JBad, JNull)}
TaskNames == {RE_INDEX_FILES_TASK_NAME, RE_INDEX_COLLECTIONS_TASK_NAME}

\* the re-index loop is running, nobody has asked it to stop, no sweep runs
LifeInit ==
    /\ chan = [f \in Fairings |-> 0]
    /\ handles = [f \in Fairings |-> f = ReIndexer]
    /\ shutdown = [f \in Fairings |-> [pc |-> "idle", sent_at |-> ""]]
    /\ waited = 0
    /\ gc = IdleGc
    /\ file_tags = {}

IdleListing == [pc |-> "idle", limit |-> 1, cursor |-> None, seen |-> <<>>]

EnvInit ==
    /\ clock = 0
    /\ index = [k \in Kinds |-> {}]
    /\ inserted = {}
    /\ listing = IdleListing
    /\ request = IdleRequest

SchedInit ==
    /\ pc = "wait"
    /\ kind = Files
    /\ task = None
    /\ cursor = None
    /\ page = <<>>
    /\ log = <<>>
    /\ files_result = "NoTask"
    /\ duration_secs = SlowSecs

Init ==
    /\ files = {e(1, 2, TRUE), e(2, 1, TRUE)}
    /\ collections = {e(1, 1, TRUE)}
    /\ batch = 1
    /\ tasks = <<>>
    /\ pushed = <<>>
    /\ tx = [c \in Clients |-> IdleTx]
    /\ calls = 0
    /\ faults = 0
    /\ SchedInit
    /\ EnvInit
    /\ LifeInit

Tick(outcomes) ==
    \/ timer_tick
    \/ \E fail \in outcomes : tick_lookup(fail)
    \/ \E fail \in outcomes : tick_in_progress(fail)
    \/ \E fail \in outcomes : tick_read(fail)
    \/ \E fail \in outcomes : tick_sink(fail)
    \/ \E fail \in outcomes : tick_metadata(fail)
    \/ \E fail \in outcomes : tick_completed(fail)

Begin(callers, inputs) ==
    \E c \in callers, n \in TaskNames, m \in inputs : enqueue_begin(c, n, m, None, TRUE)

\* The scheduler with failing calls, and one connection that calls
\* enqueue_task again and again (a single connection never waits for a lock).
Next ==
    \/ Tick(BOOLEAN)
    \/ \E fail \in BOOLEAN : tick_failed(fail)
    \/ Begin({1}, MetadataInputs)
    \/ enqueue_update(1, FALSE)
    \/ enqueue_insert(1, FALSE)
    \/ enqueue_commit(1, FALSE)

Spec == Init /\ [][Next]_vars

\* ---- enqueue_task alone: two connections whose transactions overlap, every
\* statement of which may fail, on a store that holds one earlier task.
task_row(name, status, metadata, enqueued_at) ==
    [name |-> name, status |-> status, metadata |-> metadata, enqueued_at |-> enqueued_at,
     updated_at |-> 0]

EnqueueInit ==
    /\ files = {}
    /\ collections = {}
    /\ batch = 1
    /\ \E st \in AdminTaskStatus :
          tasks \in {<<>>, <<task_row(RE_INDEX_FILES_TASK_NAME, st, NullMetadata, 0)>>}
    /\ pushed = [i \in DOMAIN tasks |-> <<>>]
    /\ tx = [c \in Clients |-> IdleTx]
    /\ calls = 0
    /\ faults = 0
    /\ SchedInit
    /\ EnvInit
    /\ LifeInit

EnqueueNext ==
    \/ Begin(Clients, {NullMetadata})
    \/ \E c \in Clients, fail \in BOOLEAN : enqueue_update(c, fail)
    \/ \E c \in Clients : enqueue_update_resume(c)
    \/ \E c \in Clients, fail \in BOOLEAN : enqueue_insert(c, fail)
    \/ \E c \in Clients, fail \in BOOLEAN : enqueue_commit(c, fail)

SpecEnqueue == EnqueueInit /\ [][EnqueueNext]_vars

\* ---- one scan alone: any source, any page limit, a Pending task of each
\* name enqueued with the null cursor (as POST /re-index leaves them), no
\* failing call and no other writer.
ScanInit ==
    /\ \E S \in SUBSET Ids, key \in [Ids -> Keys], ready \in [Ids -> BOOLEAN] :
          /\ files = {e(i, key[i], ready[i]) : i \in S}
          /\ collections = {e(i, key[i], TRUE) : i \in S}
    /\ batch \in 1..MaxBatch
    /\ tasks = <<task_row(RE_INDEX_FILES_TASK_NAME, Pending, NullMetadata, 1),
                 task_row(RE_INDEX_COLLECTIONS_TASK_NAME, Pending, NullMetadata, 2)>>
    /\ pushed = <<<<>>, <<>>>>
    /\ tx = [c \in Clients |-> IdleTx]
    /\ calls = 0
    /\ faults = 0
    /\ SchedInit
    /\ EnvInit
    /\ LifeInit

ScanNext == Tick({FALSE})

SpecScan == ScanInit /\ [][ScanNext]_vars

\* ---- the life of the process: liftoff spawns the loops of the fairings
\* that asked for it, the re-index loop ticks over two Pending tasks left in
\* the store with calls that may fail, and shutdown may begin at any moment
\* after liftoff.
LoopInit ==
    /\ files = {e(1, 2, TRUE), e(2, 1, TRUE)}
    /\ collections = {e(1, 1, TRUE)}
    /\ batch = 1
    /\ tasks = <<task_row(RE_INDEX_FILES_TASK_NAME, Pending, NullMetadata, 1),
                 task_row(RE_INDEX_COLLECTIONS_TASK_NAME, Pending, NullMetadata, 2)>>
    /\ pushed = <<<<>>, <<>>>>
    /\ tx = [c \in Clients |-> IdleTx]
    /\ calls = 0
    /\ faults = 0
    /\ chan = [f \in Fairings |-> 0]
    /\ handles = [f \in Fairings |-> FALSE]
    /\ shutdown = [f \in Fairings |-> [pc |-> "idle", sent_at |-> ""]]
    /\ waited = 0
    /\ gc = IdleGc
    /\ file_tags = {}
    /\ EnvInit
    /\ pc = "unspawned"
    /\ kind = Files
    /\ task = None
    /\ cursor = None
    /\ page = <<>>
    /\ log = <<>>
    /\ files_result = "NoTask"
    /\ duration_secs = SlowSecs

\* the awaits of the two on_tick functions
TickStep ==
    \/ \E fail \in BOOLEAN : tick_lookup(fail)
    \/ \E fail \in BOOLEAN : tick_in_progress(fail)
    \/ \E fail \in BOOLEAN : tick_read(fail)
    \/ \E fail \in BOOLEAN : tick_sink(fail)
    \/ \E fail \in BOOLEAN : tick_metadata(fail)
    \/ \E fail \in BOOLEAN : tick_failed(fail)
    \/ \E fail \in BOOLEAN : tick_completed(fail)

\* the steps of the process itself
ProcessNext ==
    \/ \E f \in Fairings : on_liftoff(f)
    \/ timer_tick
    \/ TickStep
    \/ loop_stop
    \/ \E f \in Fairings : on_shutdown_send(f)
    \/ \E f \in Fairings : on_shutdown_join(f)

LoopNext ==
    \/ ProcessNext
    \/ time_passes

SpecLoop == LoopInit /\ [][LoopNext]_vars

\* Every await of a tick returns, on_shutdown is run to its end, and select!
\* polls its ready branches in random order, so a stop signal that is ready
\* at infinitely many selects is taken at one of them.  The timer of every
\* select! is ready at once, so the passing of time is left out.
SpecLoopFair ==
    /\ LoopInit /\ [][ProcessNext]_vars
    /\ WF_vars(TickStep)
    /\ SF_vars(loop_stop)
    /\ \A f \in Fairings : WF_vars(on_shutdown_join(f))

\* ---- the GC sweep as file_gc_task runs it once spawned, next to uploads
\* that are completed (mark as ready) while it runs: files are created
\* unready at different times, all but the last one have tags.
GcInit ==
    /\ files = {e(i, ((i - 1) % MaxKey) + 1, FALSE) : i \in 1..MaxGcFiles}
    /\ collections = {}
    /\ batch = 1
    /\ tasks = <<>>
    /\ pushed = <<>>
    /\ tx = [c \in Clients |-> IdleTx]
    /\ calls = 0
    /\ faults = 0
    /\ SchedInit
    /\ EnvInit
    /\ chan = [f \in Fairings |-> 0]
    /\ handles = [f \in Fairings |-> TRUE]
    /\ shutdown = [f \in Fairings |-> [pc |-> "idle", sent_at |-> ""]]
    /\ waited = 0
    /\ gc = [IdleGc EXCEPT !.pc = "wait"]
    /\ file_tags = 1..(MaxGcFiles - 1)

GcNext ==
    \/ gc_timer_tick
    \/ \E fail \in BOOLEAN : gc_begin(fail)
    \/ \E fail \in BOOLEAN : gc_select(fail)
    \/ \E fail \in BOOLEAN : gc_delete_tags(fail)
    \/ \E fail \in BOOLEAN : gc_delete_files(fail)
    \/ \E fail \in BOOLEAN : gc_commit(fail)
    \/ gc_enqueue
    \/ \E fail \in BOOLEAN : enqueue_insert(GcClient, fail)
    \/ \E fail \in BOOLEAN : enqueue_commit(GcClient, fail)
    \/ gc_enqueue_returns
    \/ gc_stop
    \/ on_shutdown_send(FileGc)
    \/ on_shutdown_join(FileGc)
    \/ \E i \in 1..MaxGcFiles : update_one_as_ready(i)

SpecGc == GcInit /\ [][GcNext]_vars

\* ---- the GC sweep with no other writer: files uploaded at different
\* times, each ready or not, with or without tags; every statement of the sweep and of its
\* enqueue_task may fail.
SweepInit ==
    /\ \E ready \in [1..MaxGcFiles -> BOOLEAN] :
          files = {e(i, ((i - 1) % MaxKey) + 1, ready[i]) : i \in 1..MaxGcFiles}
    /\ file_tags \in SUBSET (1..MaxGcFiles)
    /\ collections = {}
    /\ batch = 1
    /\ tasks = <<>>
    /\ pushed = <<>>
    /\ tx = [c \in Clients |-> IdleTx]
    /\ calls = 0
    /\ faults = 0
    /\ SchedInit
    /\ EnvInit
    /\ chan = [f \in Fairings |-> 0]
    /\ handles = [f \in Fairings |-> TRUE]
    /\ shutdown = [f \in Fairings |-> [pc |-> "idle", sent_at |-> ""]]
    /\ waited = 0
    /\ gc = [IdleGc EXCEPT !.pc = "wait"]

SweepNext ==
    \/ gc_timer_tick
    \/ \E fail \in BOOLEAN : gc_begin(fail)
    \/ \E fail \in BOOLEAN : gc_select(fail)
    \/ \E fail \in BOOLEAN : gc_delete_tags(fail)
    \/ \E fail \in BOOLEAN : gc_delete_files(fail)
    \/ \E fail \in BOOLEAN : gc_commit(fail)
    \/ gc_enqueue
    \/ \E fail \in BOOLEAN : enqueue_insert(GcClient, fail)
    \/ \E fail \in BOOLEAN : enqueue_commit(GcClient, fail)
    \/ gc_enqueue_returns

SpecSweep == SweepInit /\ [][SweepNext]_vars


\* ---- the writers of admin_tasks while time goes by: the scheduler over
\* two Pending tasks, one of them with metadata that does not decode (the
\* way to the Failed write), and one connection that enqueues re-index
\* tasks of files.
WritesInit ==
    /\ files = {e(1, 1, TRUE)}
    /\ collections = {}
    /\ batch = 1
    /\ tasks = <<task_row(RE_INDEX_FILES_TASK_NAME, Pending, NullMetadata, 1),
                 task_row(RE_INDEX_COLLECTIONS_TASK_NAME, Pending, Metadata(JBad, JNull), 2)>>
    /\ pushed = <<<<>>, <<>>>>
    /\ tx = [c \in Clients |-> IdleTx]
    /\ calls = 0
    /\ faults = 0
    /\ SchedInit
    /\ EnvInit
    /\ LifeInit

WritesNext ==
    \/ clock_advances
    \/ Tick({FALSE})
    \/ tick_failed(FALSE)
    \/ enqueue_begin(1, RE_INDEX_FILES_TASK_NAME, NullMetadata, None, TRUE)
    \/ enqueue_update(1, FALSE)
    \/ enqueue_insert(1, FALSE)
    \/ enqueue_commit(1, FALSE)

SpecWrites == WritesInit /\ [][WritesNext]_vars

\* ---- list_tasks alone: any number of tasks with any updated_at values,
\* any limit, one client that pages to the end, no writer.
ListTasksInit ==
    /\ files = {}
    /\ collections = {}
    /\ batch = 1
    /\ \E n \in 0..MaxId : \E at \in [1..n -> 0..MaxKey] :
          tasks = [i \in 1..n |->
                     [task_row(RE_INDEX_FILES_TASK_NAME, Completed, NullMetadata, i)
                        EXCEPT !.updated_at = at[i]]]
    /\ pushed = [i \in DOMAIN tasks |-> <<>>]
    /\ tx = [c \in Clients |-> IdleTx]
    /\ calls = 0
    /\ faults = 0
    /\ SchedInit
    /\ LifeInit
    /\ clock = MaxKey
    /\ index = [k \in Kinds |-> {}]
    /\ inserted = {}
    /\ request = IdleRequest
    /\ \E limit \in 1..MaxBatch :
          listing = [pc |-> "paging", limit |-> limit, cursor |-> None, seen |-> <<>>]

ListTasksNext == admin_tasks_list

SpecListTasks == ListTasksInit /\ [][ListTasksNext]_vars

\* ---- one page request alone: any source, any page limit, any cursor, the
\* loop at the list call of the files tick or of the collections tick.
PageInit ==
    /\ \E S \in SUBSET Ids, key \in [Ids -> Keys], ready \in [Ids -> BOOLEAN] :
          /\ files = {e(i, key[i], ready[i]) : i \in S}
          /\ collections = {e(i, key[i], TRUE) : i \in S}
    /\ batch \in 1..MaxBatch
    /\ tasks = <<task_row(RE_INDEX_FILES_TASK_NAME, InProgress, NullMetadata, 1),
                 task_row(RE_INDEX_COLLECTIONS_TASK_NAME, InProgress, NullMetadata, 2)>>
    /\ pushed = <<<<>>, <<>>>>
    /\ tx = [c \in Clients |-> IdleTx]
    /\ calls = 0
    /\ faults = 0
    /\ pc = "read"
    /\ kind \in Kinds
    /\ task = Some([id |-> IF kind = Files THEN 1 ELSE 2, status |-> InProgress,
                    metadata |-> NullMetadata])
    /\ cursor \in {None} \cup {Some([id |-> i, key |-> k]) : i \in Ids, k \in Keys}
    /\ page = <<>>
    /\ log = <<entry("lookup", TRUE), entry("in_progress", TRUE)>>
    /\ files_result = "NoTask"
    /\ duration_secs = SlowSecs
    /\ EnvInit
    /\ LifeInit

PageNext == tick_read(FALSE)

SpecPage == PageInit /\ [][PageNext]_vars

\* ---- a scan next to collection requests: the scheduler over two Pending
\* tasks with no failing call, while collections are created and deleted.
RequestsInit ==
    /\ files = {}
    /\ collections = {e(MaxId, 1, TRUE)}
    /\ batch = 1
    /\ tasks = <<task_row(RE_INDEX_FILES_TASK_NAME, Pending, NullMetadata, 1),
                 task_row(RE_INDEX_COLLECTIONS_TASK_NAME, Pending, NullMetadata, 2)>>
    /\ pushed = <<<<>>, <<>>>>
    /\ tx = [c \in Clients |-> IdleTx]
    /\ calls = 0
    /\ faults = 0
    /\ SchedInit
    /\ EnvInit
    /\ LifeInit

RequestsNext ==
    \/ Tick({FALSE})
    \/ \E id \in Ids, name \in Keys : collections_create(id, name)
    \/ \E id \in Ids : collections_delete(id)

SpecRequests == RequestsInit /\ [][RequestsNext]_vars

\* ---- a scan over a process that crashes and restarts: a source whose ids
\* grow along its order, two Pending tasks, no failing call.
CrashInit ==
    /\ files = {e(1, 2, TRUE), e(2, 1, TRUE)}
    /\ collections = {e(1, 1, TRUE)}
    /\ batch = 1
    /\ tasks = <<task_row(RE_INDEX_FILES_TASK_NAME, Pending, NullMetadata, 1),
                 task_row(RE_INDEX_COLLECTIONS_TASK_NAME, Pending, NullMetadata, 2)>>
    /\ pushed = <<<<>>, <<>>>>
    /\ tx = [c \in Clients |-> IdleTx]
    /\ calls = 0
    /\ faults = 0
    /\ SchedInit
    /\ EnvInit
    /\ LifeInit

CrashNext ==
    \/ Tick({FALSE})
    \/ crash_restart

SpecCrash == CrashInit /\ [][CrashNext]_vars

\* ---- scans with failing calls: any page limit, a Pending task of each
\* name enqueued with the null cursor, every call of a tick may fail.
FaultyInit ==
    /\ files = {e(1, 2, TRUE), e(2, 1, TRUE)}
    /\ collections = {e(1, 1, TRUE)}
    /\ batch \in 1..MaxBatch
    /\ tasks = <<task_row(RE_INDEX_FILES_TASK_NAME, Pending, NullMetadata, 1),
                 task_row(RE_INDEX_COLLECTIONS_TASK_NAME, Pending, NullMetadata, 2)>>
    /\ pushed = <<<<>>, <<>>>>
    /\ tx = [c \in Clients |-> IdleTx]
    /\ calls = 0
    /\ faults = 0
    /\ SchedInit
    /\ EnvInit
    /\ LifeInit

FaultyNext ==
    \/ Tick(BOOLEAN)
    \/ \E fail \in BOOLEAN : tick_failed(fail)

SpecFaulty == FaultyInit /\ [][FaultyNext]_vars

\* ---- one scan resumed from any cursor: any source, any
\* page limit, a Pending task of each name enqueued with the null cursor or
\* with the cursor of any position, no failing call and no other writer.
\* The timer fires and every await of a tick returns.
ResumeInit ==
    /\ \E S \in SUBSET Ids, key \in [Ids -> Keys] :
          /\ files = {e(i, key[i], TRUE) : i \in S}
          /\ collections = {e(i, key[i], TRUE) : i \in S}
    /\ batch \in 1..MaxBatch
    /\ \E m \in {NullMetadata} \cup {to_value([id |-> i, key |-> k]) : i \in Ids, k \in Keys} :
          tasks = <<task_row(RE_INDEX_FILES_TASK_NAME, Pending, m, 1),
                    task_row(RE_INDEX_COLLECTIONS_TASK_NAME, Pending, m, 2)>>
    /\ pushed = <<<<>>, <<>>>>
    /\ tx = [c \in Clients |-> IdleTx]
    /\ calls = 0
    /\ faults = 0
    /\ SchedInit
    /\ EnvInit
    /\ LifeInit

ResumeNext == Tick({FALSE})

SpecResume == ResumeInit /\ [][ResumeNext]_vars /\ WF_vars(ResumeNext)

\* ---- POST /re-index alone: an index that holds a document of each kind, a
\* task of each name in whatever status, failing calls.
ReIndexInit ==
    /\ files = {e(1, 1, TRUE)}
    /\ collections = {e(1, 1, TRUE)}
    /\ batch = 1
    /\ \E s1 \in Terminal \cup {Pending, InProgress}, s2 \in Terminal \cup {Pending, InProgress} :
          tasks = <<task_row(RE_INDEX_FILES_TASK_NAME, s1, NullMetadata, 0),
                    task_row(RE_INDEX_COLLECTIONS_TASK_NAME, s2, NullMetadata, 0)>>
    /\ pushed = <<<<>>, <<>>>>
    /\ tx = [c \in Clients |-> IdleTx]
    /\ calls = 0
    /\ faults = 0
    /\ SchedInit
    /\ clock = 0
    /\ index = [k \in Kinds |-> {single_document(k, x) : x \in rows(k)}]
    /\ inserted = {}
    /\ listing = IdleListing
    /\ request = IdleRequest
    /\ LifeInit

ReIndexNext ==
    \/ admin_tasks_re_index
    \/ \E k \in Kinds, fail \in BOOLEAN : empty_index(k, fail)
    \/ \E k \in Kinds : re_index_enqueue(k)
    \/ \E fail \in BOOLEAN : enqueue_update(ApiClient, fail)
    \/ \E fail \in BOOLEAN : enqueue_insert(ApiClient, fail)
    \/ \E fail \in BOOLEAN : enqueue_commit(ApiClient, fail)
    \/ \E k \in Kinds : re_index_enqueue_returns(k)

SpecReIndex == ReIndexInit /\ [][ReIndexNext]_vars

\* ---- the scheduler and two connections that call POST /re-index: a
\* Completed files task exists, each connection calls
\* enqueue_task(reindex-files, null cursor, None, true), no call fails.
OrderInit ==
    /\ files = {e(1, 1, TRUE)}
    /\ collections = {}
    /\ batch = 1
    /\ tasks = <<task_row(RE_INDEX_FILES_TASK_NAME, Completed, NullMetadata, 0)>>
    /\ pushed = <<<<>>>>
    /\ tx = [c \in Clients |-> IdleTx]
    /\ calls = 0
    /\ faults = 0
    /\ SchedInit
    /\ EnvInit
    /\ LifeInit

OrderNext ==
    \/ Tick({FALSE})
    \/ \E c \in Clients : enqueue_begin(c, RE_INDEX_FILES_TASK_NAME, NullMetadata, None, TRUE)
    \/ \E c \in Clients : enqueue_update(c, FALSE)
    \/ \E c \in Clients : enqueue_update_resume(c)
    \/ \E c \in Clients : enqueue_insert(c, FALSE)
    \/ \E c \in Clients : enqueue_commit(c, FALSE)

SpecOrder == OrderInit /\ [][OrderNext]_vars

\* ================================================================ claims
kind_of(name) == IF name = RE_INDEX_FILES_TASK_NAME THEN Files ELSE Collections
\* how often entity id i is in the pages the sink accepted for task t
times_pushed(t, i) == Cardinality({n \in DOMAIN pushed[t] : pushed[t][n].id = i})
\* the entities a scan is to index: the rows the source serves from the null cursor
indexable(k) == {x \in rows(k) : where(k, x, None)}

\* C1: a task enqueued with the null cursor over an unchanging source, with
\* no failing call, is Completed only when the pages pushed to the sink hold
\* every entity of the source exactly once, whatever the page limit.
C1_CompletedScanCoversEveryEntityOnce ==
    \A t \in DOMAIN tasks :
        tasks[t].status = Completed =>
            /\ \A x \in indexable(kind_of(tasks[t].name)) : times_pushed(t, x.id) = 1
            /\ Len(pushed[t]) = Cardinality(indexable(kind_of(tasks[t].name)))


\* C2: at most one task of a name is Pending or InProgress, in every state
\* that enqueue_task calls and scheduler ticks reach in any interleaving.
C2_AtMostOneActiveTaskPerName ==
    \A n \in TaskNames : Cardinality(Active(n)) <= 1

\* a transaction of connection c commits in this step
commits(c) == tx[c].pc = "inserted" /\ tx'[c].pc = "idle" /\ tx'[c].result = "ok"
open(c) == tx[c].pc # "idle"

\* C3: when the later of two overlapping enqueue_task transactions of one
\* name has committed, exactly one task of that name is Pending or
\* InProgress, and no committed state holds two of them.
C3_OverlappingEnqueuesLeaveOneActive ==
    [][\A c \in Clients :
          /\ (commits(c) /\ \A d \in Clients \ {c} : ~open(d))
                => Cardinality(Active(tx[c].name))' = 1
          /\ Cardinality(Active(tx[c].name))' <= 1]_vars


\* the enqueue_task call of connection c returns an error in this step
fails(c) ==
    open(c) /\ tx'[c].pc = "idle" /\ tx'[c].result \in {"err_update", "err_insert", "err_commit"}
\* task i is seen to become Canceled in this step
canceled_now(i) == tasks[i].status # Canceled /\ tasks'[i].status = Canceled

\* C4: enqueue_task with cancel_previous is all-or-nothing: a call that
\* fails changes no committed row, and whenever a committed task is seen to
\* become Canceled the new row of its name appears in the same step.
C4_EnqueueAllOrNothing ==
    [][/\ \A c \in Clients : fails(c) => tasks' = tasks
       /\ \A i \in DOMAIN tasks :
             canceled_now(i) =>
                 /\ Len(tasks') = Len(tasks) + 1
                 /\ tasks'[Len(tasks')].name = tasks[i].name]_vars

\* a call failed at the INSERT or the commit after its UPDATE had marked
\* rows, and those rows still have the status they had
C4_Witness ==
    \E c \in Clients :
        /\ tx[c].pc = "idle"
        /\ tx[c].result \in {"err_insert", "err_commit"}
        /\ tx[c].snapshot # {}
        /\ \A i \in tx[c].snapshot : tasks[i].status \in {Pending, InProgress}

\* C5: no step of a tick changes the status of a task whose status is
\* Completed, Canceled or Failed when the step writes.
C5_TickLeavesTerminalTasksAlone ==
    [][log' # log =>
          \A i \in DOMAIN tasks :
              tasks[i].status \in Terminal => tasks'[i].status = tasks[i].status]_vars

\* C6: enqueue_task with cancel_previous turns only Pending and InProgress
\* tasks into Canceled: a Completed or Failed task keeps its status.
C6_EnqueueCancelsOnlyActiveTasks ==
    [][\A i \in DOMAIN tasks :
          /\ canceled_now(i) => tasks[i].status \in {Pending, InProgress}
          /\ tasks[i].status \in {Completed, Failed} => tasks'[i].status = tasks[i].status]_vars


\* ---- the calls of one on_tick, as its log records them
did(l, op, ok) == \E n \in DOMAIN l : l[n] = entry(op, ok)
attempts(l, op) == Cardinality({n \in DOMAIN l : l[n].op = op})
\* the on_tick function returns in this step
tick_returns ==
    /\ pc \notin {"wait", "unspawned", "exit"}
    /\ (pc' \in {"wait", "exit"} \/ kind' # kind)
\* the on_tick function whose log is l returned Err: a call failed, or the
\* metadata did not decode (the only way to the write of Failed)
returned_err(l) == \E n \in DOMAIN l : ~l[n].ok \/ l[n].op = "failed"

\* C7: in a tick that found a Pending task, every source read (and sink
\* write) comes after the successful write of InProgress, and when that
\* write fails the tick reads no source and writes no sink.
C7_InProgressWrittenBeforeSourceRead ==
    (task # None /\ task[1].status = Pending) =>
        /\ \A n \in DOMAIN log :
              log[n].op \in {"read", "sink"} =>
                  \E m \in 1..(n - 1) : log[m] = entry("in_progress", TRUE)
        /\ did(log, "in_progress", FALSE) =>
              \A n \in DOMAIN log : log[n].op \notin {"read", "sink"}

C7_Witness ==
    /\ task # None
    /\ task[1].status = Pending
    /\ did(log, "read", TRUE)
    /\ tasks[task[1].id].status = InProgress

C9_FailedStepFailsTaskWithoutRetry ==
    [][(/\ tick_returns
        /\ task' # None
        /\ \E op \in {"read", "sink", "metadata"} : did(log', op, FALSE)
        /\ ~did(log', "in_progress", FALSE)
        /\ ~did(log', "failed", FALSE)) =>
          /\ tasks'[task'[1].id].status = Failed
          /\ \A op \in {"read", "sink", "metadata"} : attempts(log', op) <= 1]_vars

C9_Witness ==
    /\ task # None
    /\ did(log, "metadata", FALSE)
    /\ did(log, "failed", TRUE)
    /\ attempts(log, "metadata") = 1
    /\ tasks[task[1].id].status = Failed

\* C10: every tick that picked a task and returned an error leaves that
\* task Failed, whichever call failed.
C10_EveryTickErrorFailsTask ==
    [][(tick_returns /\ task' # None /\ returned_err(log')) =>
          tasks'[task'[1].id].status = Failed]_vars

\* ---- the loop and the life of the process
\* the collections tick returns in this step: the timer firing is over
firing_ends == tick_returns /\ kind = Collections

\* C11: an error returned by the files tick or the collections tick does not
\* end the re-index loop: the files error is followed by the collections
\* tick, after the firing the loop is back at its wait with its timer ready
\* to fire again, and the loop exits only by taking a stop signal at the wait.
C11_TickErrorsDoNotEndTheLoop ==
    [][/\ (pc # "exit" /\ pc' = "exit") => (pc = "wait" /\ chan[ReIndexer] > 0)
       /\ (tick_returns /\ kind = Files /\ returned_err(log')) => pc' = "lookup"
       /\ (firing_ends /\ (files_result' = "Err" \/ returned_err(log')))
             => (pc' = "wait" /\ timer_ready')]_vars

\* a firing whose files tick returned Err is over and the timer has fired again
C11_Witness ==
    /\ pc = "lookup"
    /\ kind = Files
    /\ files_result = "Err"
    /\ log # <<>>
    /\ chan[ReIndexer] = 0

\* C12: whenever the metadata of the task holds no complete, well-typed
\* cursor (fields missing, null, present in part, or of another type or
\* shape), the tick goes on with cursor None to the read of the first page;
\* the decode never sends the tick to the write of Failed.
C12_UndecodableCursorReadsFirstPage ==
    [][(/\ pc = "in_progress"
        /\ pc' # "in_progress"
        /\ did(log', "in_progress", TRUE)
        /\ cursor_of(task[1].metadata) = None)
          => (pc' = "read" /\ cursor' = None)]_vars

\* the latest committed task of a name
latest(name) ==
    CHOOSE i \in DOMAIN tasks :
        /\ tasks[i].name = name
        /\ \A j \in DOMAIN tasks : tasks[j].name = name => j <= i

\* C13: when the latest task of a name is Failed with persisted cursor c,
\* the task created by the next enqueue of that name starts from c.
C13_RetryStartsFromPersistedCursor ==
    [][\A c \in Clients :
          (/\ commits(c)
           /\ \E i \in DOMAIN tasks : tasks[i].name = tx[c].name
           /\ tasks[latest(tx[c].name)].status = Failed
           /\ cursor_of(tasks[latest(tx[c].name)].metadata) # None)
             => cursor_of(tasks'[Len(tasks')].metadata)
                    = cursor_of(tasks[latest(tx[c].name)].metadata)]_vars

\* the on_tick whose log is l pushed a non-empty page successfully: the sink
\* accepted the page and the tick went on to its end (TaskNotCompleted)
pushed_page(l) == did(l, "sink", TRUE) /\ did(l, "metadata", TRUE)

\* C14: the files tick returns TaskNotCompleted exactly when it pushed a page
\* successfully, and at the end of a timer firing the next interval is the
\* minimum of the two intervals: fast (1) exactly when the files tick or the
\* collections tick pushed a page successfully, slow (10) otherwise (idle,
\* settled or failed).
C14_NextIntervalIsMinimum ==
    [][/\ (tick_returns /\ kind = Files)
             => (files_result' = "TaskNotCompleted" <=> pushed_page(log'))
       /\ firing_ends
             => /\ duration_secs' \in {FastSecs, SlowSecs}
                /\ duration_secs' = FastSecs
                      <=> (files_result = "TaskNotCompleted" \/ pushed_page(log'))
                /\ duration_secs' = SlowSecs
                      <=> (files_result \in {"NoTask", "TaskCompleted", "Err"}
                           /\ ~pushed_page(log'))]_vars

\* a firing in which only the files tick pushed a page has set the fast interval
C14_Witness ==
    /\ pc = "wait"
    /\ duration_secs = FastSecs
    /\ files_result = "TaskNotCompleted"
    /\ ~pushed_page(log)

\* the timer branch of select! is taken in this step: a tick starts
tick_starts == pc = "wait" /\ pc' = "lookup"

\* C15: with the stop signal in the channel and the loop at its wait, the
\* loop does not start another tick.
C15_NoTickAfterStopSignal ==
    [][(pc = "wait" /\ chan[ReIndexer] > 0) => ~tick_starts]_vars

\* C16: a tick that follows another tick starts only after the loop has
\* waited for duration_secs in its wait.
C16_TickWaitsForInterval ==
    [][(tick_starts /\ log # <<>>) => waited >= duration_secs]_vars

\* C17: the loop exits only from its wait, so a tick in flight when the
\* stop signal arrives makes its remaining calls first, and on_shutdown of
\* the re-indexer has returned only when the loop has exited.
C17_InFlightTickFinishesBeforeExit ==
    [][/\ (pc # "exit" /\ pc' = "exit") => pc = "wait"
       /\ (chan[ReIndexer] > 0 /\ pc \notin {"wait", "exit"}) => pc' # "exit"
       /\ (handles[ReIndexer] /\ shutdown'[ReIndexer].pc = "returned") => pc' = "exit"]_vars

\* the signal arrived before the read of a tick, the tick went on to persist
\* its cursor, then the loop exited and on_shutdown returned
C17_Witness ==
    /\ shutdown[ReIndexer].sent_at = "read"
    /\ shutdown[ReIndexer].pc = "returned"
    /\ pc = "exit"
    /\ did(log, "read", TRUE)

\* C18: once on_shutdown has sent the stop signal to the running re-index
\* loop, the loop exits and on_shutdown returns, when every call of a tick
\* returns and scheduling is fair.
C18_ShutdownTerminates ==
    (shutdown[ReIndexer].pc = "join" /\ handles[ReIndexer])
        ~> (pc = "exit" /\ shutdown[ReIndexer].pc = "returned")

\* on_shutdown found a running loop, sent the signal and has returned
C18_Witness ==
    /\ handles[ReIndexer]
    /\ shutdown[ReIndexer].pc = "returned"
    /\ shutdown[ReIndexer].sent_at # "unspawned"
    /\ chan[ReIndexer] = 0
    /\ pc = "exit"

\* Rocket has called on_liftoff of every fairing it calls it for
liftoff_over == \A f \in Fairings : "Liftoff" \in info_kind(f) => handles[f]

\* C19: after liftoff the loop of each attached fairing has been spawned:
\* the re-index loop and the GC sweep loop.
C19_LiftoffSpawnsBothLoops ==
    liftoff_over => \A f \in Fairings : loop_pc(f) # "unspawned"

\* C20: every file row the GC sweep deletes is not ready when it is deleted.
C20_SweepDeletesNoReadyFile ==
    [][\A f \in files : (\A x \in files' : x.id # f.id) => ~f.ready]_vars

\* ---- the GC sweep
\* the files a sweep at time `now` is to delete: not ready, and uploaded
\* more than the grace window before
expired(now) == {f \in files : ~f.ready /\ now - f.key > GraceHours}
\* the sweep's transaction commits in this step
sweep_commits == gc.pc = "commit" /\ gc'.pc = "enqueue" /\ gc'.success

\* C21: a sweep with no other writer deletes exactly the unready files
\* uploaded more than the grace window before the tick, and the tags of
\* those files; every other file and tag is unchanged; the task recorded
\* after it is Completed with metadata {"success": true}.
C21_SweepDeletesExactlyExpiredUnreadyFiles ==
    [][/\ sweep_commits
             => /\ files' = files \ expired(gc.now)
                /\ file_tags' = file_tags \ {f.id : f \in expired(gc.now)}
       /\ (commits(GcClient) /\ gc.success)
             => /\ Len(tasks') = Len(tasks) + 1
                /\ tasks'[Len(tasks')].name = FILE_GC_TASK_NAME
                /\ tasks'[Len(tasks')].status = Completed
                /\ tasks'[Len(tasks')].metadata = GcMetadata(TRUE, "")]_vars

\* a sweep deleted an old unready file that had tags, kept a ready file of
\* the same age and an unready younger one, and recorded its task
C21_Witness ==
    /\ gc.pc = "wait"
    /\ gc.success
    /\ gc.ids # {}
    /\ \E f \in files : f.ready /\ f.key < gc.before
    /\ \A f \in files : f.ready \/ f.key >= gc.before
    /\ \A i \in gc.ids : i \notin file_tags /\ \A f \in files : f.id # i
    /\ Len(tasks) > 0
    /\ tasks[Len(tasks)].status = Completed
    /\ tasks[Len(tasks)].metadata = GcMetadata(TRUE, "")

\* C22: the task store changes in a sweep tick only by the commit of the
\* tick's one enqueue_task call, which appends one task named for the sweep,
\* terminal from creation, whose metadata tells whether the deletion
\* succeeded, and leaves every existing task as it was; no call is open
\* outside the enqueue step, and the tick returns to the wait of the loop
\* whether the insert succeeded or failed.
C22_SweepRecordsOneTerminalTask ==
    [][/\ tasks' # tasks
             => /\ gc.pc = "enqueue" /\ commits(GcClient)
                /\ Len(tasks') = Len(tasks) + 1
                /\ \A i \in DOMAIN tasks : tasks'[i] = tasks[i]
                /\ tasks'[Len(tasks')].name = FILE_GC_TASK_NAME
                /\ tasks'[Len(tasks')].status \in Terminal
                /\ tasks'[Len(tasks')].metadata = GcMetadata(gc.success, gc.error)
       /\ gc.pc # "enqueue" => tx[GcClient] = IdleTx
       /\ (gc.pc = "enqueue" /\ gc'.pc # "enqueue")
             => /\ gc'.pc = "wait"
                /\ tx[GcClient].result # "none"
                /\ tx'[GcClient] = IdleTx]_vars

\* of two ticks one failed to insert its task and the other recorded a
\* failed deletion in a Completed task
C22_Witness ==
    /\ gc.pc = "wait"
    /\ calls = 2
    /\ Len(tasks) = 1
    /\ ~tasks[1].metadata.success
    /\ tasks[1].status = Completed

\* ---- updated_at and list_tasks
\* a write of the scheduler to task i succeeds in this step
tick_writes(i) ==
    /\ pc \in {"in_progress", "metadata", "failed", "completed"}
    /\ task # None /\ task[1].id = i
    /\ log' # log
    /\ log'[Len(log')].ok
\* task i is written in this step
written(i) == tick_writes(i) \/ canceled_now(i)

C24_PagingListsEveryTaskOnce ==
    listing.pc = "done"
       => listing.seen = task_order_limit(AdminTaskPreview(tasks), Len(tasks))

\* ---- the page request of the entity sources
\* the entities of kind k strictly after position c of the total order
\* (sort field, then id); all of them when there is no cursor
after(k, c) == {x \in indexable(k) : c = None \/ before(k, c[1], x)}

\* C25: the page a request returns is the first min(limit, n) of the
\* entities strictly after the cursor in the total order of the source.
C25_PageIsFirstEntitiesAfterCursor ==
    pc # "read" => page = order_limit(kind, after(kind, cursor), batch)

\* ---- requests next to a scan
\* C26: when a scan has Completed, a collection created during it that is
\* still in the store was pushed by the scan if it was created after the
\* cursor issued to the scan, and was not pushed by it if it was created
\* before that cursor.
C26_CreatedEntitiesFollowTheCursor ==
    \A r \in inserted :
       (/\ r.scan # 0
        /\ tasks[r.scan].status = Completed
        /\ \E c \in collections : c.id = r.id)
          => /\ r.place = "after" => times_pushed(r.scan, r.id) >= 1
             /\ r.place = "before" => times_pushed(r.scan, r.id) = 0

\* C27: once the scan of the collections has Completed and no tick and no
\* request is in flight, the index holds exactly the documents of the
\* collections in the store: one per collection with its current name, and
\* none of a deleted collection.
C27_IndexMatchesStoreAfterScan ==
    (/\ pc = "wait"
     /\ \E i \in DOMAIN tasks :
           tasks[i].name = RE_INDEX_COLLECTIONS_TASK_NAME /\ tasks[i].status = Completed)
       => {position(d) : d \in index[Collections]} = {position(c) : c \in collections}

\* ---- crash and restart
\* C28: whatever the points at which the process crashed and restarted, a
\* task left InProgress is the active task of its name, no entity is in the
\* pages the sink accepted for a task more than once, and a Completed scan
\* has pushed every entity of its source.
C28_RestartLosesAndRepeatsNothing ==
    \A t \in DOMAIN tasks :
       /\ tasks[t].status = InProgress => t \in get_last_active_task(tasks[t].name)
       /\ \A i \in Ids : times_pushed(t, i) <= 1
       /\ tasks[t].status = Completed
             => \A x \in indexable(kind_of(tasks[t].name)) : times_pushed(t, x.id) = 1

\* ---- the stored cursor
\* entry n of the pages accepted for task t is the last entity of its page
page_end(t, n) == n = Len(pushed[t]) \/ pushed[t][n + 1].page # pushed[t][n].page

\* C29: the metadata of a re-index task is the document it was enqueued
\* with or the cursor (id, sort field) of the last entity of a page the sink
\* accepted for the task: never the cursor of an entity the sink did not
\* accept.
C29_CursorIsEndOfAcceptedPage ==
    \A t \in DOMAIN tasks :
       tasks[t].name \in TaskNames
          => \/ tasks[t].metadata \in MetadataInputs
             \/ \E n \in DOMAIN pushed[t] :
                   /\ page_end(t, n)
                   /\ tasks[t].metadata = to_value(pushed[t][n])

\* the sink accepted the first page of the files, two entities, and the
\* write of its cursor succeeded: the cursor is that of the second entity;
\* the collections page was refused and the cursor of that task is as enqueued
C29_Witness ==
    /\ batch = 2
    /\ pc = "wait"
    /\ did(log, "sink", FALSE)
    /\ Len(pushed[1]) = 2
    /\ tasks[1].metadata = to_value(pushed[1][2])
    /\ tasks[1].metadata # to_value(pushed[1][1])
    /\ pushed[2] = <<>>
    /\ tasks[2].status = Failed
    /\ tasks[2].metadata = NullMetadata

\* ---- the length of a scan
\* ceil(n / b)
ceil_div(n, b) == (n + b - 1) \div b

\* C30: with no failing call and no other writer, every page a scan pushes
\* leaves its task InProgress, and the scan is Completed, by the tick that
\* reads the empty page, after exactly ceil(n / batch) pushed pages, n being
\* the number of entities of the source.
C30_ScanTakesCeilPagesThenOneEmptyTick ==
    \A t \in DOMAIN tasks :
       LET n == Cardinality(indexable(kind_of(tasks[t].name))) IN
       /\ (tasks[t].status = Completed) => pages(pushed[t]) = ceil_div(n, batch)
       /\ (tasks[t].status # Completed /\ pages(pushed[t]) >= 1) => tasks[t].status = InProgress

\* ---- the end of a scan
\* the tick writes the cursor of task t in this step
cursor_written(t) == pc = "metadata" /\ task[1].id = t /\ log' # log

\* C31: with a source that does not change and no failing call, every write
\* of a task's cursor puts it strictly after the cursor it replaces in the
\* order of the source (any entity is after the null cursor), the tick that
\* reads an empty page sets the task Completed, and both tasks, enqueued
\* with whatever cursor, are Completed in the end.
C31_ScanTerminates ==
    /\ [][\A t \in DOMAIN tasks :
            /\ cursor_written(t)
                  => /\ cursor_of(tasks'[t].metadata) # None
                     /\ cursor_of(tasks[t].metadata) # None
                           => before(kind, cursor_of(tasks[t].metadata)[1],
                                     cursor_of(tasks'[t].metadata)[1])
            /\ (pc = "read" /\ task[1].id = t /\ page' = <<>>)
                  => pc' = "completed"
            /\ (pc = "completed" /\ task[1].id = t) => tasks'[t].status = Completed]_vars
    /\ <>[](\A t \in DOMAIN tasks : tasks[t].status = Completed)

\* a scan of three collections of one name, enqueued with the cursor of the
\* first of them, has pushed the other two in two pages and is Completed
C31_Witness ==
    /\ batch = 1
    /\ collections = {e(i, 1, TRUE) : i \in 1..3}
    /\ tasks[2].status = Completed
    /\ tasks[2].metadata = to_value(e(3, 1, TRUE))
    /\ Len(pushed[2]) = 2
    /\ pushed[2][1].id = 2
    /\ pushed[2][2].id = 3

\* ---- the two ticks of a firing
\* C32: a tick reads, and a step of a tick writes, only the task named for
\* the kind of the tick: the row, the pages pushed for it and the task the
\* tick holds; and when the files tick returns, with whatever result, the
\* collections tick of the same firing starts.
C32_TicksAreIndependent ==
    [][/\ \A t \in DOMAIN tasks :
             (tasks'[t] # tasks[t] \/ pushed'[t] # pushed[t])
                => kind_of(tasks[t].name) = kind
       /\ (pc = "lookup" /\ task' # None) => kind_of(tasks[task'[1].id].name) = kind
       /\ (kind = Files /\ tick_returns)
             => /\ kind' = Collections
                /\ pc' = "lookup"]_vars

\* the files tick has returned Err and left its task Failed, and the
\* collections tick of the same firing has pushed a page
C32_Witness ==
    /\ kind = Collections
    /\ pc = "metadata"
    /\ files_result = "Err"
    /\ tasks[1].status = Failed
    /\ tasks[2].status = InProgress
    /\ Len(pushed[2]) >= 1

\* ---- terminal tasks
\* a step of the scheduler (every other step is one of an enqueue_task call)
scheduler_step == tx' = tx

\* C33: a task that is Failed or Completed is not returned by the lookup of
\* a tick, and no step of a tick changes its row or pushes a page for it.
C33_TerminalTaskIsLeftAlone ==
    [][\A t \in DOMAIN tasks :
          (tasks[t].status \in {Failed, Completed} /\ scheduler_step)
             => /\ tasks'[t] = tasks[t]
                /\ pushed'[t] = pushed[t]
                /\ (pc = "lookup" /\ task' # None) => task'[1].id # t]_vars

\* the files task is Failed, and a later files tick has found no task while
\* the collections tick goes on
C33_Witness ==
    /\ kind = Collections
    /\ pc = "in_progress"
    /\ files_result = "NoTask"
    /\ \E t \in DOMAIN tasks :
          tasks[t].name = RE_INDEX_FILES_TASK_NAME /\ tasks[t].status = Failed
    /\ \A t \in DOMAIN tasks :
          tasks[t].name = RE_INDEX_FILES_TASK_NAME => tasks[t].status \in Terminal

\* ---- the transaction of the sweep
\* C34: the rows of files and file_tags change in a sweep tick only by the
\* commit of the sweep, which removes every selected file and every tag of
\* a selected file and nothing else; a sweep of which a statement failed has
\* changed no row.
C34_SweepDeletesAllOrNothing ==
    [][/\ (files' # files \/ file_tags' # file_tags)
             => /\ gc.pc = "commit" /\ gc'.pc = "enqueue" /\ gc'.success
                /\ files' = {f \in files : f.id \notin gc.ids}
                /\ file_tags' = file_tags \ gc.ids
       /\ (gc.pc = "commit" /\ gc'.pc = "enqueue" /\ gc'.success)
             => /\ \A f \in files' : f.id \notin gc.ids
                /\ file_tags' \cap gc.ids = {}
       /\ (gc.success /\ ~gc'.success) => (files' = files /\ file_tags' = file_tags)]_vars

\* the DELETE FROM files of a sweep that had deleted the tags of a selected
\* file failed: the file and its tag are in the store
C34_Witness ==
    /\ gc.pc = "enqueue"
    /\ ~gc.success
    /\ gc.ids \cap file_tags # {}
    /\ \A i \in gc.ids : \E f \in files : f.id = i
    /\ faults = 1

\* ---- the documents of a re-index
\* C35: once the scan of the collections has Completed, every document of
\* the collections index is the document that index_collection writes for
\* its collection: id, name, tags and created_at.
C35_BatchDocumentEqualsSingleDocument ==
    tasks[2].status = Completed
       => \A d \in index[Collections] :
             \A c \in collections :
                c.id = d.id => d = single_document(Collections, c)

\* ---- the pages of one scan
\* C36: in a scan over a source that does not change, every entity of a page
\* read is strictly after the cursor the page was requested with and strictly
\* after every entity of the pages pushed before it, so no entity is pushed
\* in two pages.
C36_PagesOfAScanAreDisjoint ==
    [][(pc = "read" /\ log' # log)
          => \A n \in DOMAIN page' :
                /\ cursor # None => before(kind, cursor[1], page'[n])
                /\ \A m \in DOMAIN pushed[task[1].id] :
                      /\ before(kind, pushed[task[1].id][m], page'[n])
                      /\ pushed[task[1].id][m].id # page'[n].id]_vars

\* the files scan has read its second page, of the file 2, with the cursor
\* of the file 1 that it pushed as its first page
C36_Witness ==
    /\ kind = Files
    /\ pc = "sink"
    /\ batch = 1
    /\ cursor = Some(position(e(1, 1, TRUE)))
    /\ Len(pushed[1]) = 1
    /\ pushed[1][1].id = 1
    /\ page = <<e(2, 1, TRUE)>>

\* ---- the order in which tasks of one name are worked on
\* the tasks of the name of task t that were enqueued before t and are active
earlier_active(t) ==
    {j \in Active(tasks[t].name) : tasks[j].enqueued_at < tasks[t].enqueued_at}

\* C37: the task a tick looks up is the active task of its name with the
\* earliest enqueued_at, and a tick never sets a task InProgress while a task
\* of the same name that was enqueued earlier is Pending or InProgress.
C37_EarliestActiveTaskFirst ==
    [][/\ (pc = "lookup" /\ pc' = "in_progress")
            => /\ task'[1].id \in Active(task_name(kind))
               /\ earlier_active(task'[1].id) = {}
       /\ \A t \in DOMAIN tasks :
             (pc = "in_progress" /\ tasks[t].status # InProgress /\ tasks'[t].status = InProgress)
                => earlier_active(t) = {}]_vars

\* ---- the status of the sweep's task
\* the steps of delete_unready_files that can return an error
GcSteps == {"begin", "select", "delete_tags", "delete_files", "commit"}

\* C38: every task of the sweep is Completed from the step that records it
\* on, whether the deletion succeeded or failed; the metadata of a task
\* recorded after a failed deletion is success = false with the text of the
\* error, that of a task recorded after a successful one is success = true
\* alone, and nothing else of the task tells the two apart.
C38_SweepTaskIsCompletedWhateverTheDeletion ==
    [][/\ \A i \in DOMAIN tasks' :
             tasks'[i].name = FILE_GC_TASK_NAME => tasks'[i].status = Completed
       /\ commits(GcClient)
             => LET t == tasks'[Len(tasks')] IN
                /\ t.name = FILE_GC_TASK_NAME
                /\ t.metadata.success = gc.success
                /\ gc.success => DOMAIN t.metadata = {"shape", "success"}
                /\ ~gc.success => /\ DOMAIN t.metadata = {"shape", "success", "error"}
                                  /\ t.metadata.error = gc.error
                                  /\ gc.error \in GcSteps
                /\ [t EXCEPT !.metadata = 0] =
                      [name |-> FILE_GC_TASK_NAME, status |-> Completed, metadata |-> 0,
                       enqueued_at |-> tx[GcClient].enqueued_at, updated_at |-> clock]]_vars

\* a sweep whose DELETE FROM files failed and a sweep that succeeded have
\* each recorded a Completed task
C38_Witness ==
    /\ gc.pc = "wait"
    /\ Len(tasks) = 2
    /\ tasks[1].status = Completed
    /\ tasks[1].metadata = GcMetadata(FALSE, "delete_files")
    /\ tasks[2].status = Completed
    /\ tasks[2].metadata = GcMetadata(TRUE, "")

\* ---- POST /re-index
\* the handler is in one of its two enqueue_task calls
enqueuing == request.pc \in {"enqueue_files", "enqueue_collections"}

\* C39: the handler of POST /re-index opens a transaction and changes the
\* task store only after both indexes were emptied, and a failure of the
\* emptying ends the request with the tasks as they were; each of its two
\* enqueue_task calls commits on its own, appending one task of its name with
\* the null cursor and the default status and leaving the tasks of the other
\* name alone; when the second call fails the files task of the first is
\* still there, as it was enqueued.
C39_ReIndexEmptiesThenEnqueuesTwice ==
    [][/\ tx'[ApiClient] # IdleTx => request'.pc \in {"enqueue_files", "enqueue_collections"}
       /\ tasks' # tasks
             => /\ enqueuing /\ commits(ApiClient)
                /\ \A k \in Kinds : index[k] = {}
       /\ (~enqueuing /\ request.pc # "idle" /\ request'.pc = "idle")
             => /\ request'.response = InternalServerError
                /\ tasks' = tasks
                /\ tx' = tx
       /\ commits(ApiClient)
             => LET t == tasks'[Len(tasks')] IN
                /\ Len(tasks') = Len(tasks) + 1
                /\ t.name = IF request.pc = "enqueue_files" THEN RE_INDEX_FILES_TASK_NAME
                            ELSE RE_INDEX_COLLECTIONS_TASK_NAME
                /\ t.metadata = NullMetadata
                /\ cursor_of(t.metadata) = None
                /\ t.status = default_status
                /\ \A i \in DOMAIN tasks : tasks[i].name # t.name => tasks'[i] = tasks[i]
       /\ (request.pc = "enqueue_collections" /\ request'.pc = "idle"
              /\ request.file_task # None /\ request'.collection_task = None)
             => /\ request'.response = InternalServerError
                /\ LET t == tasks'[request.file_task[1]] IN
                    /\ t.name = RE_INDEX_FILES_TASK_NAME
                    /\ t.status = default_status
                    /\ t.metadata = NullMetadata]_vars

\* a request has emptied both indexes, enqueued a new files task beside the
\* Canceled earlier one, failed to enqueue the collections task, and answered
\* with an error: the new files task is Pending
C39_Witness ==
    /\ request.pc = "idle"
    /\ request.response = InternalServerError
    /\ request.file_task = Some(3)
    /\ request.collection_task = None
    /\ Len(tasks) = 3
    /\ tasks[1].status = Canceled
    /\ tasks[2].status = InProgress
    /\ tasks[3].name = RE_INDEX_FILES_TASK_NAME
    /\ tasks[3].status = Pending
    /\ \A k \in Kinds : index[k] = {}

\* ---- incomplete uploads
\* C40: every file of a page that a files tick has read, and so every file
\* it pushes to the index, is ready.
C40_PageHoldsReadyFilesOnly ==
    kind = Files => \A n \in DOMAIN page : page[n].ready

====
